---- MODULE Spec2Model ----
(***************************************************************************)
(* Model of tyvt's request-governing core: the RateLimiter (Governor),     *)
(* the KeyRotator (Rotator) and Scanner.Run (Orchestrator).                *)
(*                                                                         *)
(* Time is an integer clock of ticks.  A day is DayLen ticks and a month   *)
(* is MonthDays days; time.Now() carries the process's local zone, which   *)
(* is tzOffset ticks east of UTC.                                          *)
(***************************************************************************)
EXTENDS Integers, Sequences, FiniteSets, TLC

(* ---------------------------- program constants ------------------------ *)
DailyLimit == 500
MonthlyLimit == 15500

(* ------------------------------- bounds -------------------------------- *)
DayLen == 4
MonthDays == 2
MinInterval == 2
Horizon == 5
NumCallers == 2
MaxItems == 3
MaxRotations == 3
MaxStops == 2
MaxRequests == 4
MaxProxies == 4

MonthLen == MonthDays * DayLen
MaxTime == MonthLen + Horizon
ConcHorizon == MinInterval + 1
RunHorizon == (MaxItems - 1) * MinInterval
RotationInterval == MinInterval
RotHorizon == RotationInterval + 1
KeyLists == {<<"k1">>, <<"k1", "k2">>}
RotKeyLists == {<<>>, <<"k1">>, <<"k1", "k2">>, <<"k1", "k2", "k3">>}
Keys == {"k1", "k2"}
TZOffsets == {0, 1}
Callers == 1..NumCallers
ZeroTime == -1
Unlocked == 0
NoKey == ""
NoPre == <<-1, -1, -1, FALSE, FALSE>>
Void == <<>>
NoStatus == <<-1, -1>>
ProxyLists == {<<>>, <<"http://p1:8080">>, <<"http://p1:8080", "http://p2:8080">>,
               <<"http://p1:8080", "http://p2:8080", "10.0.0.3:8080">>}
NewProxies == {"http://p4:8080", "10.0.0.3:8080"}
NoProxy == ""
NoURL == <<"nil", "nil">>
NoQuota == [DailyCount |-> -1, MonthlyCount |-> -1, LastReset |-> -1, MonthReset |-> -1]

VARIABLES
    now,          \* the clock read by time.Now()
    deadline,     \* the last instant the model lets the clock reach
    tzOffset,     \* offset of the local zone from UTC, in ticks
    ctxDone,      \* the cancellation signal (ctx.Done() is closed)
    lastRequest,  \* RateLimiter.lastRequest, ZeroTime when unset
    keyQuotas,    \* RateLimiter.keyQuotas: key -> KeyQuota, NoQuota when absent
    procs,        \* the goroutines that call the RateLimiter
    pc,           \* per caller: "idle", "wait" (suspended), "commit"
    apiKey,       \* per caller: the key of the Wait call in progress
    wakeAt,       \* per caller: the instant time.After(waitTime) fires
    ret,          \* per caller: result of its last Wait call
    pre,          \* for a suspended sole caller: GetQuotaStatus(key), lastRequest and
                  \* the crossed window boundaries, as they were when it called Wait
    admitted,     \* per key: <<N>> after N admitted Wait calls since construction or
                  \* Reset with no window boundary crossed meanwhile, Void otherwise
    panicked,     \* a goroutine hit a nil-pointer dereference
    limiterMu,    \* RateLimiter.mu: Unlocked, or the caller holding it
    quotaRet,     \* the pair GetQuotaStatus returned, while that call is the
                  \* latest call on the RateLimiter, NoStatus otherwise
    dayAdmitted,  \* per key: <<N>> after N admitted Wait calls made since the
                  \* current UTC day began or since Reset, Void when not known
    keys,         \* KeyRotator.keys
    currentIndex, \* KeyRotator.currentIndex
    nextTick,     \* the instant autoRotate's ticker fires next
    started,      \* KeyRotator.started
    stopChan,     \* KeyRotator.stopChan: "open" or "closed"
    mu,           \* KeyRotator.mu: Unlocked, or the caller holding the write lock
    taskPc,       \* the autoRotate goroutine: "none", "spawned", "loop", "tick", "done"
    rotPc,        \* per caller of the rotator: "idle", "read" (at RLock), "stop" (at Lock)
    rotRet,       \* the key returned by the last CurrentKey or RotateKey call of a caller
    stopPanic,    \* close() was called on the closed stopChan
    manualRotations, \* RotateKey calls by callers that advanced the index
    autoRotated,  \* the autoRotate goroutine has advanced the index
    autoRotations, \* RotateKey calls by the autoRotate goroutine
    stopCalls,    \* Stop calls made so far
    domains,      \* len(s.config.Domains); the items are 1..domains
    outputFile,   \* Handler.HasOutputFile()
    runPc,        \* Scanner.Run: "idle", "poll", "key", "call", "inwait", "http", "done"
    i,            \* Scanner.Run: the item of the current loop iteration
    curKey,       \* QueryDomain: the apiKey it read from the rotator
    results,      \* Scanner.Run: the items with a result, in the order appended
    errors,       \* Scanner.Run: the items that failed, in the order appended
    runRet,       \* what Run returned: "none", "nil", "cancelled", "failed"
    wrote,        \* WriteResults was called
    queried,      \* the items for which the remote request was issued
    attempts,     \* the items for which QueryDomain was called, in call order
    waitKey,      \* QueryDomain: the key it passed to Wait, NoKey before the call
    sentKey,      \* QueryDomain: the key in the request it sent, NoKey before
    cancelIdx,    \* the first item not yet started when cancel() ran, 0 before
    cancelInWait, \* cancel() ran while the batch loop was suspended in Wait
    rotatedInWait, \* autoRotate advanced the index while the batch loop was
                  \* suspended in Wait
    calledDone,   \* a single caller's latest Wait call was made with ctx
                  \* already done and needed no pacing delay
    proxies,      \* IPRotator.proxies
    proxyIndex,   \* IPRotator.currentIndex
    proxyFn,      \* transport.Proxy: "none" before ProxyFunc is called, then
                  \* "env" (http.ProxyFromEnvironment) or "rotate" (the closure)
    createdLen,   \* len(proxies) when ProxyFunc was called, 0 before
    served,       \* the entry each request took from proxies, in request order
    proxyRet      \* what the latest request got from transport.Proxy

govVars == <<deadline, tzOffset, lastRequest, keyQuotas, procs, pc, apiKey,
             wakeAt, ret, pre, admitted, panicked, limiterMu, quotaRet, dayAdmitted>>
rotVars == <<keys, currentIndex, nextTick, started, stopChan, mu, taskPc, rotPc,
             rotRet, stopPanic, manualRotations, autoRotated, autoRotations, stopCalls>>
runVars == <<domains, outputFile, runPc, i, curKey, results, errors, runRet,
             wrote, queried, attempts, waitKey, sentKey>>

ipVars == <<proxies, proxyIndex, proxyFn, createdLen, served, proxyRet>>

vars == <<now, ctxDone, cancelIdx, cancelInWait, rotatedInWait, calledDone, ipVars, govVars, rotVars, runVars>>

(* ------------------------------ time ----------------------------------- *)
\* t.Truncate(24 * time.Hour): rounds down to a multiple of a day since the
\* zero time, i.e. to the start of the UTC day.
Truncate(t) == t - (t % DayLen)

\* (now.Year(), now.Month()) of a time in the local zone, as a month number.
LocalMonth(t) == (t + tzOffset) \div MonthLen

\* time.Date(now.Year(), now.Month(), 1, 0, 0, 0, 0, time.UTC)
MonthStart(t) == LocalMonth(t) * MonthLen

\* (MonthReset.Year(), MonthReset.Month()): MonthReset is a UTC time.
StoredMonth(t) == t \div MonthLen

(* ----------------------------- RateLimiter ----------------------------- *)
NewKeyQuota(t) ==
    [DailyCount |-> 0, MonthlyCount |-> 0,
     LastReset |-> Truncate(t), MonthReset |-> MonthStart(t)]

\* Mutant of RollQuota: the month comparison is inverted.
RollQuota_SameMonth(q0, t) ==
    LET q1 == IF q0 = NoQuota THEN NewKeyQuota(t) ELSE q0
        q2 == IF t - q1.LastReset >= DayLen
              THEN [q1 EXCEPT !.DailyCount = 0, !.LastReset = Truncate(t)]
              ELSE q1
        q3 == IF LocalMonth(t) = StoredMonth(q2.MonthReset)
              THEN [q2 EXCEPT !.MonthlyCount = 0, !.MonthReset = MonthStart(t)]
              ELSE q2
    IN q3

\* Mutant of RollQuota: the daily reset leaves LastReset as it was.
RollQuota_KeepsLastReset(q0, t) ==
    LET q1 == IF q0 = NoQuota THEN NewKeyQuota(t) ELSE q0
        q2 == IF t - q1.LastReset >= DayLen
              THEN [q1 EXCEPT !.DailyCount = 0]
              ELSE q1
        q3 == IF LocalMonth(t) # StoredMonth(q2.MonthReset)
              THEN [q2 EXCEPT !.MonthlyCount = 0, !.MonthReset = MonthStart(t)]
              ELSE q2
    IN q3

\* checkQuota, first half: lazy creation and the two window resets.
RollQuota(q0, t) ==
    LET q1 == IF q0 = NoQuota THEN NewKeyQuota(t) ELSE q0
        q2 == IF t - q1.LastReset >= DayLen
              THEN [q1 EXCEPT !.DailyCount = 0, !.LastReset = Truncate(t)]
              ELSE q1
        q3 == IF LocalMonth(t) # StoredMonth(q2.MonthReset)
              THEN [q2 EXCEPT !.MonthlyCount = 0, !.MonthReset = MonthStart(t)]
              ELSE q2
    IN q3

\* Mutant of QuotaError: the limits are compared with > instead of >=.
QuotaError_Strict(q) ==
    IF q.DailyCount > DailyLimit THEN "daily"
    ELSE IF q.MonthlyCount > MonthlyLimit THEN "monthly"
    ELSE "nil"

\* Mutant of QuotaError: the monthly limit is compared first.
QuotaError_MonthlyFirst(q) ==
    IF q.MonthlyCount >= MonthlyLimit THEN "monthly"
    ELSE IF q.DailyCount >= DailyLimit THEN "daily"
    ELSE "nil"

\* checkQuota, second half: the error it returns for the rolled quota.
QuotaError(q) ==
    IF q.DailyCount >= DailyLimit THEN "daily"
    ELSE IF q.MonthlyCount >= MonthlyLimit THEN "monthly"
    ELSE "nil"

\* Mutant of WaitTime: the remaining delay is one tick short.
WaitTime_Short(t) ==
    IF lastRequest # ZeroTime /\ t - lastRequest < MinInterval
    THEN MinInterval - (t - lastRequest) - 1
    ELSE 0

\* Wait's pacing computation under the lock.
WaitTime(t) ==
    IF lastRequest # ZeroTime /\ t - lastRequest < MinInterval
    THEN MinInterval - (t - lastRequest)
    ELSE 0

\* GetQuotaStatus on a given keyQuotas map.
QuotaStatus(quotas, k) ==
    IF quotas[k] = NoQuota THEN <<0, 0>>
    ELSE <<quotas[k].DailyCount, quotas[k].MonthlyCount>>

GetQuotaStatus(k) == QuotaStatus(keyQuotas, k)

(* ------------------------------ initial state -------------------------- *)
\* A RateLimiter is observed either right after New() or after some use:
\* the start counts are the ones a run reaches just below and at the limits.
StartTimes == {MonthLen - DayLen, MonthLen}
StartCounts == {<<DailyLimit - 1, DailyLimit - 1>>,
                <<DailyLimit - 1, MonthlyLimit - 1>>,
                <<DailyLimit, MonthlyLimit>>}

\* A month of 31 local days holds 31 UTC day windows in UTC and overlaps 32
\* of them elsewhere, so the monthly limit is reached before the last day
\* window of the month only when the zone is not UTC.
StartReachable(t, tz, c) ==
    c[2] >= MonthlyLimit - 1 =>
        (tz # 0 \/ Truncate(t) + DayLen = (t \div MonthLen + 1) * MonthLen)

UsedQuota(t, c) ==
    [DailyCount |-> c[1], MonthlyCount |-> c[2],
     LastReset |-> Truncate(t), MonthReset |-> MonthStart(t)]

\* New(minInterval).
NewLimiter ==
    /\ keyQuotas = [k \in Keys |-> NoQuota]
    /\ lastRequest = ZeroTime
    /\ admitted = [k \in Keys |-> <<0>>]
    /\ dayAdmitted = [k \in Keys |-> <<0>>]

\* A RateLimiter whose key k1 has been in use up to now.
UsedLimiter ==
    \E c \in StartCounts :
       /\ StartReachable(now, tzOffset, c)
       /\ keyQuotas = [k \in Keys |-> IF k = "k1" THEN UsedQuota(now, c) ELSE NoQuota]
       /\ lastRequest = now
       /\ admitted = [k \in Keys |-> IF k = "k1" THEN Void ELSE <<0>>]
    /\ dayAdmitted = [k \in Keys |-> IF k = "k1" THEN Void ELSE <<0>>]

\* A RateLimiter whose key k1 is one request below the daily limit and was
\* last used MinInterval ago.
NearLimitLimiter ==
    /\ keyQuotas = [k \in Keys |->
                      IF k = "k1" THEN UsedQuota(now, <<DailyLimit - 1, DailyLimit - 1>>)
                      ELSE NoQuota]
    /\ lastRequest = now - MinInterval
    /\ admitted = [k \in Keys |-> IF k = "k1" THEN Void ELSE <<0>>]
    /\ dayAdmitted = [k \in Keys |-> IF k = "k1" THEN Void ELSE <<0>>]

InitClock ==
    /\ tzOffset \in TZOffsets
    /\ now \in StartTimes
    /\ ctxDone = FALSE
    /\ panicked = FALSE
    /\ limiterMu = Unlocked
    /\ quotaRet = NoStatus

InitGovernor == InitClock /\ (NewLimiter \/ UsedLimiter)

InitCallers(n) ==
    /\ procs = 1..n
    /\ pc = [p \in Callers |-> "idle"]
    /\ apiKey = [p \in Callers |-> NoKey]
    /\ wakeAt = [p \in Callers |-> 0]
    /\ ret = [p \in Callers |-> "none"]
    /\ pre = [p \in Callers |-> NoPre]

(* ------------------------------- actions ------------------------------- *)
\* The current UTC day is not the day of k's daily window.
DayCrossed(k) ==
    keyQuotas[k] # NoQuota /\ Truncate(now) # keyQuotas[k].LastReset

\* The current local month is not the month of k's monthly window.
MonthCrossed(k) ==
    keyQuotas[k] # NoQuota /\ MonthStart(now) # keyQuotas[k].MonthReset

\* A day window (UTC) or a month (local zone) ends between t and t + 1.
CrossesBoundary(t) ==
    \/ Truncate(t + 1) # Truncate(t)
    \/ LocalMonth(t + 1) # LocalMonth(t)

\* The clock advances.
Tick ==
    /\ ~panicked
    /\ now < deadline
    /\ now' = now + 1
    /\ admitted' = [k \in Keys |->
                      IF CrossesBoundary(now) /\ keyQuotas[k] # NoQuota THEN Void
                      ELSE admitted[k]]
    /\ dayAdmitted' = [k \in Keys |->
                         IF Truncate(now + 1) = Truncate(now) THEN dayAdmitted[k]
                         ELSE IF \E p \in procs : pc[p] # "idle" /\ apiKey[p] = k THEN Void
                         ELSE <<0>>]
    /\ UNCHANGED <<deadline, tzOffset, lastRequest, keyQuotas, procs, pc, apiKey,
                   wakeAt, ret, pre, panicked, limiterMu, quotaRet>>

\* The signal listener calls cancel().
Cancel ==
    /\ ~panicked
    /\ ~ctxDone
    /\ ctxDone' = TRUE
    /\ UNCHANGED now

\* Mutant of WaitCheck: ctx.Done() is polled before the quota check.
WaitCheck_PollsCtx(p, k) ==
    /\ ~panicked
    /\ pc[p] = "idle"
    /\ limiterMu = Unlocked
    /\ LET q == RollQuota(keyQuotas[k], now)
           err == QuotaError(q)
           waitTime == WaitTime(now)
       IN IF ctxDone
          THEN /\ ret' = [ret EXCEPT ![p] = "cancelled"]
               /\ UNCHANGED <<keyQuotas, pc, apiKey, wakeAt, pre>>
          ELSE /\ keyQuotas' = [keyQuotas EXCEPT ![k] = q]
               /\ IF err # "nil"
                  THEN /\ ret' = [ret EXCEPT ![p] = err]
                       /\ UNCHANGED <<pc, apiKey, wakeAt, pre>>
                  ELSE /\ ret' = [ret EXCEPT ![p] = "none"]
                       /\ apiKey' = [apiKey EXCEPT ![p] = k]
                       /\ pre' = [pre EXCEPT ![p] =
                                    IF waitTime > 0 /\ Cardinality(procs) = 1
                                    THEN <<GetQuotaStatus(k)[1], GetQuotaStatus(k)[2], lastRequest,
                                           DayCrossed(k), MonthCrossed(k)>>
                                    ELSE NoPre]
                       /\ wakeAt' = [wakeAt EXCEPT ![p] = IF waitTime > 0 THEN now + waitTime ELSE 0]
                       /\ pc' = [pc EXCEPT ![p] = IF waitTime > 0 THEN "wait" ELSE "commit"]
    /\ quotaRet' = NoStatus
    /\ UNCHANGED <<deadline, tzOffset, lastRequest, procs, admitted, panicked,
                   limiterMu, dayAdmitted>>

\* Mutant of WaitCheck: the lock is kept while the caller is suspended.
WaitCheck_HoldsLock(p, k) ==
    /\ ~panicked
    /\ pc[p] = "idle"
    /\ limiterMu = Unlocked
    /\ LET q == RollQuota(keyQuotas[k], now)
           err == QuotaError(q)
           waitTime == WaitTime(now)
       IN /\ keyQuotas' = [keyQuotas EXCEPT ![k] = q]
          /\ IF err # "nil"
             THEN /\ ret' = [ret EXCEPT ![p] = err]
                  /\ UNCHANGED <<pc, apiKey, wakeAt, pre, limiterMu>>
             ELSE /\ ret' = [ret EXCEPT ![p] = "none"]
                  /\ apiKey' = [apiKey EXCEPT ![p] = k]
                  /\ pre' = [pre EXCEPT ![p] =
                               IF waitTime > 0 /\ Cardinality(procs) = 1
                               THEN <<GetQuotaStatus(k)[1], GetQuotaStatus(k)[2], lastRequest,
                                      DayCrossed(k), MonthCrossed(k)>>
                               ELSE NoPre]
                  /\ wakeAt' = [wakeAt EXCEPT ![p] = IF waitTime > 0 THEN now + waitTime ELSE 0]
                  /\ pc' = [pc EXCEPT ![p] = IF waitTime > 0 THEN "wait" ELSE "commit"]
                  /\ limiterMu' = IF waitTime > 0 THEN p ELSE Unlocked
    /\ quotaRet' = NoStatus
    /\ UNCHANGED <<deadline, tzOffset, lastRequest, procs, admitted, panicked,
                   dayAdmitted>>

\* Wait, first critical section: checkQuota, then the pacing computation.
WaitCheck(p, k) ==
    /\ ~panicked
    /\ pc[p] = "idle"
    /\ limiterMu = Unlocked
    /\ LET q == RollQuota(keyQuotas[k], now)
           err == QuotaError(q)
           waitTime == WaitTime(now)
       IN /\ keyQuotas' = [keyQuotas EXCEPT ![k] = q]
          /\ IF err # "nil"
             THEN /\ ret' = [ret EXCEPT ![p] = err]
                  /\ UNCHANGED <<pc, apiKey, wakeAt, pre>>
             ELSE /\ ret' = [ret EXCEPT ![p] = "none"]
                  /\ apiKey' = [apiKey EXCEPT ![p] = k]
                  /\ pre' = [pre EXCEPT ![p] =
                               IF waitTime > 0 /\ Cardinality(procs) = 1
                               THEN <<GetQuotaStatus(k)[1], GetQuotaStatus(k)[2], lastRequest,
                                      DayCrossed(k), MonthCrossed(k)>>
                               ELSE NoPre]
                  /\ wakeAt' = [wakeAt EXCEPT ![p] = IF waitTime > 0 THEN now + waitTime ELSE 0]
                  /\ pc' = [pc EXCEPT ![p] = IF waitTime > 0 THEN "wait" ELSE "commit"]
    /\ quotaRet' = NoStatus
    /\ UNCHANGED <<deadline, tzOffset, lastRequest, procs, admitted, panicked,
                   limiterMu, dayAdmitted>>

\* select: <-time.After(waitTime) fires.
WaitWake(p) ==
    /\ ~panicked
    /\ pc[p] = "wait"
    /\ now >= wakeAt[p]
    /\ pc' = [pc EXCEPT ![p] = "commit"]
    /\ wakeAt' = [wakeAt EXCEPT ![p] = 0]
    /\ pre' = [pre EXCEPT ![p] = NoPre]
    /\ quotaRet' = NoStatus
    /\ UNCHANGED <<deadline, tzOffset, lastRequest, keyQuotas, procs, apiKey,
                   ret, admitted, panicked, limiterMu, dayAdmitted>>

\* Mutant of WaitCancelled: the cancelled call still stamps lastRequest.
WaitCancelled_Stamps(p) ==
    /\ ~panicked
    /\ pc[p] = "wait"
    /\ ctxDone
    /\ pc' = [pc EXCEPT ![p] = "idle"]
    /\ ret' = [ret EXCEPT ![p] = "cancelled"]
    /\ apiKey' = [apiKey EXCEPT ![p] = NoKey]
    /\ wakeAt' = [wakeAt EXCEPT ![p] = 0]
    /\ pre' = [pre EXCEPT ![p] = NoPre]
    /\ lastRequest' = now
    /\ quotaRet' = NoStatus
    /\ UNCHANGED <<deadline, tzOffset, keyQuotas, procs,
                   admitted, panicked, limiterMu, dayAdmitted>>

\* Mutant of WaitCancelled: the cancelled call gives its request back.
WaitCancelled_Refunds(p) ==
    /\ ~panicked
    /\ pc[p] = "wait"
    /\ ctxDone
    /\ pc' = [pc EXCEPT ![p] = "idle"]
    /\ ret' = [ret EXCEPT ![p] = "cancelled"]
    /\ apiKey' = [apiKey EXCEPT ![p] = NoKey]
    /\ wakeAt' = [wakeAt EXCEPT ![p] = 0]
    /\ pre' = [pre EXCEPT ![p] = NoPre]
    /\ keyQuotas' = [keyQuotas EXCEPT ![apiKey[p]].DailyCount = @ - 1,
                                      ![apiKey[p]].MonthlyCount = @ - 1]
    /\ quotaRet' = NoStatus
    /\ UNCHANGED <<deadline, tzOffset, lastRequest, procs,
                   admitted, panicked, limiterMu, dayAdmitted>>

\* select: <-ctx.Done() is taken, Wait returns ctx.Err().
WaitCancelled(p) ==
    /\ ~panicked
    /\ pc[p] = "wait"
    /\ ctxDone
    /\ pc' = [pc EXCEPT ![p] = "idle"]
    /\ ret' = [ret EXCEPT ![p] = "cancelled"]
    /\ apiKey' = [apiKey EXCEPT ![p] = NoKey]
    /\ wakeAt' = [wakeAt EXCEPT ![p] = 0]
    /\ pre' = [pre EXCEPT ![p] = NoPre]
    /\ quotaRet' = NoStatus
    /\ UNCHANGED <<deadline, tzOffset, lastRequest, keyQuotas, procs,
                   admitted, panicked, limiterMu, dayAdmitted>>

\* Mutant of WaitCommit: only the daily counter is incremented.
WaitCommit_DailyOnly(p) ==
    /\ ~panicked
    /\ pc[p] = "commit"
    /\ limiterMu = Unlocked
    /\ lastRequest' = now
    /\ IF keyQuotas[apiKey[p]] = NoQuota
       THEN /\ panicked' = TRUE
            /\ UNCHANGED <<keyQuotas, pc, ret, apiKey, pre, admitted, dayAdmitted>>
       ELSE /\ keyQuotas' = [keyQuotas EXCEPT ![apiKey[p]].DailyCount = @ + 1]
            /\ pc' = [pc EXCEPT ![p] = "idle"]
            /\ ret' = [ret EXCEPT ![p] = "ok"]
            /\ apiKey' = [apiKey EXCEPT ![p] = NoKey]
            /\ pre' = [pre EXCEPT ![p] = NoPre]
            /\ admitted' = [admitted EXCEPT ![apiKey[p]] = IF @ = Void THEN Void ELSE <<@[1] + 1>>]
            /\ dayAdmitted' = [dayAdmitted EXCEPT ![apiKey[p]] = IF @ = Void THEN Void ELSE <<@[1] + 1>>]
            /\ UNCHANGED panicked
    /\ quotaRet' = NoStatus
    /\ UNCHANGED <<deadline, tzOffset, procs, wakeAt, limiterMu>>

\* Mutant of WaitCommit: the call returns without releasing the lock.
WaitCommit_KeepsLock(p) ==
    /\ ~panicked
    /\ pc[p] = "commit"
    /\ limiterMu = Unlocked
    /\ lastRequest' = now
    /\ IF keyQuotas[apiKey[p]] = NoQuota
       THEN /\ panicked' = TRUE
            /\ UNCHANGED <<keyQuotas, pc, ret, apiKey, pre, admitted, dayAdmitted>>
       ELSE /\ keyQuotas' = [keyQuotas EXCEPT
                                ![apiKey[p]].DailyCount = @ + 1,
                                ![apiKey[p]].MonthlyCount = @ + 1]
            /\ pc' = [pc EXCEPT ![p] = "idle"]
            /\ ret' = [ret EXCEPT ![p] = "ok"]
            /\ apiKey' = [apiKey EXCEPT ![p] = NoKey]
            /\ pre' = [pre EXCEPT ![p] = NoPre]
            /\ admitted' = [admitted EXCEPT ![apiKey[p]] = IF @ = Void THEN Void ELSE <<@[1] + 1>>]
            /\ dayAdmitted' = [dayAdmitted EXCEPT ![apiKey[p]] = IF @ = Void THEN Void ELSE <<@[1] + 1>>]
            /\ UNCHANGED panicked
    /\ quotaRet' = NoStatus
    /\ limiterMu' = p
    /\ UNCHANGED <<deadline, tzOffset, procs, wakeAt>>

\* Mutant of WaitCommit: the request is counted against every key in use.
WaitCommit_AllKeys(p) ==
    /\ ~panicked
    /\ pc[p] = "commit"
    /\ limiterMu = Unlocked
    /\ lastRequest' = now
    /\ IF keyQuotas[apiKey[p]] = NoQuota
       THEN /\ panicked' = TRUE
            /\ UNCHANGED <<keyQuotas, pc, ret, apiKey, pre, admitted, dayAdmitted>>
       ELSE /\ keyQuotas' = [k \in Keys |->
                               IF keyQuotas[k] = NoQuota THEN NoQuota
                               ELSE [keyQuotas[k] EXCEPT !.DailyCount = @ + 1,
                                                         !.MonthlyCount = @ + 1]]
            /\ pc' = [pc EXCEPT ![p] = "idle"]
            /\ ret' = [ret EXCEPT ![p] = "ok"]
            /\ apiKey' = [apiKey EXCEPT ![p] = NoKey]
            /\ pre' = [pre EXCEPT ![p] = NoPre]
            /\ admitted' = [admitted EXCEPT ![apiKey[p]] = IF @ = Void THEN Void ELSE <<@[1] + 1>>]
            /\ dayAdmitted' = [dayAdmitted EXCEPT ![apiKey[p]] = IF @ = Void THEN Void ELSE <<@[1] + 1>>]
            /\ UNCHANGED panicked
    /\ quotaRet' = NoStatus
    /\ UNCHANGED <<deadline, tzOffset, procs, wakeAt, limiterMu>>

\* Wait, second critical section: stamp lastRequest and count the request.
\* keyQuotas[apiKey] is nil when Reset emptied the map in between.
WaitCommit(p) ==
    /\ ~panicked
    /\ pc[p] = "commit"
    /\ limiterMu = Unlocked
    /\ lastRequest' = now
    /\ IF keyQuotas[apiKey[p]] = NoQuota
       THEN /\ panicked' = TRUE
            /\ UNCHANGED <<keyQuotas, pc, ret, apiKey, pre, admitted, dayAdmitted>>
       ELSE /\ keyQuotas' = [keyQuotas EXCEPT
                                ![apiKey[p]].DailyCount = @ + 1,
                                ![apiKey[p]].MonthlyCount = @ + 1]
            /\ pc' = [pc EXCEPT ![p] = "idle"]
            /\ ret' = [ret EXCEPT ![p] = "ok"]
            /\ apiKey' = [apiKey EXCEPT ![p] = NoKey]
            /\ pre' = [pre EXCEPT ![p] = NoPre]
            /\ admitted' = [admitted EXCEPT ![apiKey[p]] = IF @ = Void THEN Void ELSE <<@[1] + 1>>]
            /\ dayAdmitted' = [dayAdmitted EXCEPT ![apiKey[p]] = IF @ = Void THEN Void ELSE <<@[1] + 1>>]
            /\ UNCHANGED panicked
    /\ quotaRet' = NoStatus
    /\ UNCHANGED <<deadline, tzOffset, procs, wakeAt, limiterMu>>

\* Mutant of Reset: the pacing marker is kept.
Reset_KeepsLastRequest(p) ==
    /\ ~panicked
    /\ pc[p] = "idle"
    /\ limiterMu = Unlocked
    /\ keyQuotas' = [k \in Keys |-> NoQuota]
    /\ admitted' = [k \in Keys |-> <<0>>]
    /\ dayAdmitted' = [k \in Keys |-> <<0>>]
    /\ quotaRet' = NoStatus
    /\ UNCHANGED <<deadline, tzOffset, lastRequest, procs, pc, apiKey, wakeAt, ret, pre,
                   panicked, limiterMu>>

\* Reset, called by a goroutine that is not itself inside Wait.
Reset(p) ==
    /\ ~panicked
    /\ pc[p] = "idle"
    /\ limiterMu = Unlocked
    /\ lastRequest' = ZeroTime
    /\ keyQuotas' = [k \in Keys |-> NoQuota]
    /\ admitted' = [k \in Keys |-> <<0>>]
    /\ dayAdmitted' = [k \in Keys |-> <<0>>]
    /\ quotaRet' = NoStatus
    /\ UNCHANGED <<deadline, tzOffset, procs, pc, apiKey, wakeAt, ret, pre,
                   panicked, limiterMu>>

\* Mutant of GetQuotaStatusCall: the entry of an unknown key is created.
GetQuotaStatusCall_Creates(p, k) ==
    /\ ~panicked
    /\ pc[p] = "idle"
    /\ limiterMu = Unlocked
    /\ quotaRet' = QuotaStatus(keyQuotas, k)
    /\ keyQuotas' = [keyQuotas EXCEPT ![k] = IF @ = NoQuota THEN NewKeyQuota(now) ELSE @]
    /\ UNCHANGED <<deadline, tzOffset, lastRequest, procs, pc, apiKey, wakeAt,
                   ret, pre, admitted, panicked, limiterMu, dayAdmitted>>

\* GetQuotaStatus, called by a goroutine that is not itself inside Wait: it
\* reads the counters of k under the lock.
GetQuotaStatusCall(p, k) ==
    /\ ~panicked
    /\ pc[p] = "idle"
    /\ limiterMu = Unlocked
    /\ quotaRet' = QuotaStatus(keyQuotas, k)
    /\ UNCHANGED <<deadline, tzOffset, lastRequest, keyQuotas, procs, pc, apiKey, wakeAt,
                   ret, pre, admitted, panicked, limiterMu, dayAdmitted>>

(* ------------------------------ KeyRotator ----------------------------- *)
\* Mutant of CurrentKey: the first key is returned whatever the index is.
CurrentKey_First ==
    IF Len(keys) = 0 THEN NoKey ELSE keys[1]

\* CurrentKey: the key at currentIndex, the empty string without keys.
CurrentKey ==
    IF Len(keys) = 0 THEN NoKey ELSE keys[currentIndex + 1]

\* Mutant of NextIndex: the index is advanced by two.
NextIndex_Skip == (currentIndex + 2) % Len(keys)

\* RotateKey: the index after a rotation.
NextIndex == (currentIndex + 1) % Len(keys)

\* autoRotate: the ticker fires and RotateKey advances the index.
AutoRotate ==
    /\ ~panicked
    /\ Len(keys) > 1
    /\ taskPc = "loop"
    /\ mu = Unlocked
    /\ now >= nextTick
    /\ currentIndex' = NextIndex
    /\ nextTick' = nextTick + RotationInterval
    /\ autoRotated' = TRUE
    /\ autoRotations' = autoRotations + 1
    /\ UNCHANGED <<keys, started, stopChan, mu, taskPc, rotPc, rotRet, stopPanic,
                   manualRotations, stopCalls>>

\* A caller enters CurrentKey and is at mu.RLock().
CurrentKeyEnter(p) ==
    /\ ~stopPanic
    /\ rotPc[p] = "idle"
    /\ rotPc' = [rotPc EXCEPT ![p] = "read"]
    /\ UNCHANGED <<keys, currentIndex, nextTick, started, stopChan, mu, taskPc,
                   rotRet, stopPanic, manualRotations, autoRotated, autoRotations, stopCalls>>

\* CurrentKey gets the read lock, which no writer may hold, and returns the
\* key at currentIndex.  Called from RotateKey, RotateKey then returns that
\* key and its deferred Unlock runs.
CurrentKeyRead(p) ==
    /\ ~stopPanic
    /\ rotPc[p] = "read"
    /\ mu = Unlocked
    /\ rotRet' = CurrentKey
    /\ rotPc' = [rotPc EXCEPT ![p] = "idle"]
    /\ mu' = Unlocked
    /\ UNCHANGED <<keys, currentIndex, nextTick, started, stopChan, taskPc,
                   stopPanic, manualRotations, autoRotated, autoRotations, stopCalls>>

\* RotateKey called by a caller: with at most one key it calls CurrentKey
\* while it holds the write lock, otherwise it advances the index.
RotateKey(p) ==
    /\ ~stopPanic
    /\ rotPc[p] = "idle"
    /\ mu = Unlocked
    /\ IF Len(keys) <= 1
       THEN /\ mu' = p
            /\ rotPc' = [rotPc EXCEPT ![p] = "read"]
            /\ UNCHANGED <<currentIndex, rotRet, manualRotations>>
       ELSE /\ manualRotations < MaxRotations
            /\ currentIndex' = NextIndex
            /\ rotRet' = keys[NextIndex + 1]
            /\ manualRotations' = manualRotations + 1
            /\ UNCHANGED <<mu, rotPc>>
    /\ UNCHANGED <<keys, nextTick, started, stopChan, taskPc, stopPanic,
                   autoRotated, autoRotations, stopCalls>>

\* A caller enters Stop and is at mu.Lock().
StopEnter(p) ==
    /\ ~stopPanic
    /\ rotPc[p] = "idle"
    /\ stopCalls < MaxStops
    /\ rotPc' = [rotPc EXCEPT ![p] = "stop"]
    /\ stopCalls' = stopCalls + 1
    /\ UNCHANGED <<keys, currentIndex, nextTick, started, stopChan, mu, taskPc,
                   rotRet, stopPanic, manualRotations, autoRotated, autoRotations>>

\* Mutant of Stop: stopChan is closed whatever started says.
Stop_NoGuard(p) ==
    /\ ~stopPanic
    /\ rotPc[p] = "stop"
    /\ mu = Unlocked
    /\ IF stopChan = "closed"
       THEN stopPanic' = TRUE /\ UNCHANGED stopChan
       ELSE stopChan' = "closed" /\ UNCHANGED stopPanic
    /\ started' = FALSE
    /\ rotPc' = [rotPc EXCEPT ![p] = "idle"]
    /\ UNCHANGED <<keys, currentIndex, nextTick, mu, taskPc, rotRet,
                   manualRotations, autoRotated, autoRotations, stopCalls>>

\* Stop under the write lock: close stopChan if the goroutine has started.
Stop(p) ==
    /\ ~stopPanic
    /\ rotPc[p] = "stop"
    /\ mu = Unlocked
    /\ IF started
       THEN /\ IF stopChan = "closed"
               THEN stopPanic' = TRUE /\ UNCHANGED stopChan
               ELSE stopChan' = "closed" /\ UNCHANGED stopPanic
            /\ started' = FALSE
       ELSE UNCHANGED <<stopChan, stopPanic, started>>
    /\ rotPc' = [rotPc EXCEPT ![p] = "idle"]
    /\ UNCHANGED <<keys, currentIndex, nextTick, mu, taskPc, rotRet,
                   manualRotations, autoRotated, autoRotations, stopCalls>>

\* autoRotate begins to run: it sets started under the lock and creates the
\* ticker.  The clock is observed at least until the ticker's first tick.
AutoRotateStart ==
    /\ ~stopPanic
    /\ taskPc = "spawned"
    /\ mu = Unlocked
    /\ started' = TRUE
    /\ nextTick' = now + RotationInterval
    /\ deadline' = IF now + RotationInterval > deadline
                   THEN now + RotationInterval ELSE deadline
    /\ taskPc' = "loop"
    /\ UNCHANGED <<keys, currentIndex, stopChan, mu, rotPc, rotRet, stopPanic,
                   manualRotations, autoRotated, autoRotations, stopCalls>>

\* select: a tick is received from ticker.C.
AutoRotateTick ==
    /\ ~stopPanic
    /\ taskPc = "loop"
    /\ now >= nextTick
    /\ nextTick' = nextTick + RotationInterval
    /\ taskPc' = "tick"
    /\ UNCHANGED <<keys, currentIndex, started, stopChan, mu, rotPc, rotRet,
                   stopPanic, manualRotations, autoRotated, autoRotations, stopCalls>>

\* Mutant of AutoRotateKey: the index is advanced without wrapping around.
AutoRotateKey_NoWrap ==
    /\ ~stopPanic
    /\ taskPc = "tick"
    /\ mu = Unlocked
    /\ currentIndex' = currentIndex + 1
    /\ autoRotated' = TRUE
    /\ autoRotations' = autoRotations + 1
    /\ taskPc' = "loop"
    /\ UNCHANGED <<keys, nextTick, started, stopChan, mu, rotPc, rotRet,
                   stopPanic, manualRotations, stopCalls>>

\* Mutant of AutoRotateKey: the new index is computed from the index the
\* rotator was built with, not from the current one.
AutoRotateKey_FromStart ==
    /\ ~stopPanic
    /\ taskPc = "tick"
    /\ mu = Unlocked
    /\ currentIndex' = 1 % Len(keys)
    /\ autoRotated' = TRUE
    /\ autoRotations' = autoRotations + 1
    /\ taskPc' = "loop"
    /\ UNCHANGED <<keys, nextTick, started, stopChan, mu, rotPc, rotRet,
                   stopPanic, manualRotations, stopCalls>>

\* The RotateKey call of autoRotate; the goroutine exists only with
\* more than one key.
AutoRotateKey ==
    /\ ~stopPanic
    /\ taskPc = "tick"
    /\ mu = Unlocked
    /\ currentIndex' = NextIndex
    /\ autoRotated' = TRUE
    /\ autoRotations' = autoRotations + 1
    /\ taskPc' = "loop"
    /\ UNCHANGED <<keys, nextTick, started, stopChan, mu, rotPc, rotRet,
                   stopPanic, manualRotations, stopCalls>>

\* select: stopChan is closed, autoRotate returns.
AutoRotateExit ==
    /\ ~stopPanic
    /\ taskPc = "loop"
    /\ stopChan = "closed"
    /\ taskPc' = "done"
    /\ UNCHANGED <<keys, currentIndex, nextTick, started, stopChan, mu, rotPc,
                   rotRet, stopPanic, manualRotations, autoRotated, autoRotations, stopCalls>>

(* ------------------------------ Scanner.Run ---------------------------- *)
\* Mutant of RunVerdict: the threshold is compared with >= instead of >.
RunVerdict_AtHalf(numErrors, totalDomains) ==
    IF numErrors >= totalDomains \div 2 THEN "failed" ELSE "nil"

\* The failure threshold at the end of Run.
RunVerdict(numErrors, totalDomains) ==
    IF numErrors > totalDomains \div 2 THEN "failed" ELSE "nil"

\* Mutant of ItemFails: the failed item is tried again.
ItemFails_Retry ==
    /\ errors' = Append(errors, i)
    /\ i' = i
    /\ runPc' = "poll"
    /\ UNCHANGED <<results, runRet, wrote>>

\* The error branch of the loop body: record the failure, next iteration.
ItemFails ==
    /\ errors' = Append(errors, i)
    /\ i' = i + 1
    /\ runPc' = "poll"
    /\ UNCHANGED <<results, runRet, wrote>>

\* Mutant of ScanPoll: the loop never looks at ctx.Done().
ScanPoll_NoCheck ==
    /\ ~panicked
    /\ runPc = "poll"
    /\ i <= domains
    /\ runPc' = "key"
    /\ UNCHANGED <<domains, outputFile, i, curKey, results, errors, runRet, wrote, queried, attempts, waitKey, sentKey>>

\* Mutant of ScanPoll: a cancelled Run writes the results it has.
ScanPoll_WritesOnCancel ==
    /\ ~panicked
    /\ runPc = "poll"
    /\ i <= domains
    /\ IF ctxDone
       THEN /\ runRet' = "cancelled"
            /\ runPc' = "done"
            /\ wrote' = (Len(results) > 0 /\ outputFile)
       ELSE /\ runPc' = "key"
            /\ UNCHANGED <<runRet, wrote>>
    /\ UNCHANGED <<domains, outputFile, i, curKey, results, errors, queried, attempts, waitKey, sentKey>>

\* Mutant of ScanPoll: on cancellation the loop polls again instead of
\* returning.
ScanPoll_Spins ==
    /\ ~panicked
    /\ runPc = "poll"
    /\ i <= domains
    /\ IF ctxDone
       THEN UNCHANGED <<runRet, runPc>>
       ELSE /\ runPc' = "key"
            /\ UNCHANGED runRet
    /\ UNCHANGED <<domains, outputFile, i, curKey, results, errors, wrote, queried, attempts, waitKey, sentKey>>

\* Top of the loop for an item: the non-blocking read of ctx.Done().
ScanPoll ==
    /\ ~panicked
    /\ runPc = "poll"
    /\ i <= domains
    /\ IF ctxDone
       THEN /\ runRet' = "cancelled"
            /\ runPc' = "done"
       ELSE /\ runPc' = "key"
            /\ UNCHANGED runRet
    /\ UNCHANGED <<domains, outputFile, i, curKey, results, errors, wrote, queried, attempts, waitKey, sentKey>>

\* Mutant of ScanKey: an item without a key is skipped, no failure recorded.
ScanKey_SkipsEmpty ==
    /\ ~panicked
    /\ runPc = "key"
    /\ IF CurrentKey = NoKey
       THEN /\ i' = i + 1
            /\ runPc' = "poll"
            /\ UNCHANGED <<curKey, results, errors, runRet, wrote>>
       ELSE /\ curKey' = CurrentKey
            /\ runPc' = "call"
            /\ UNCHANGED <<i, results, errors, runRet, wrote>>
    /\ attempts' = Append(attempts, i)
    /\ waitKey' = NoKey
    /\ sentKey' = NoKey
    /\ UNCHANGED <<domains, outputFile, queried>>

\* QueryDomain: read the current key; an empty key fails the item.
ScanKey ==
    /\ ~panicked
    /\ runPc = "key"
    /\ IF CurrentKey = NoKey
       THEN /\ ItemFails
            /\ UNCHANGED curKey
       ELSE /\ curKey' = CurrentKey
            /\ runPc' = "call"
            /\ UNCHANGED <<i, results, errors, runRet, wrote>>
    /\ attempts' = Append(attempts, i)
    /\ waitKey' = NoKey
    /\ sentKey' = NoKey
    /\ UNCHANGED <<domains, outputFile, queried>>

\* Mutant of ScanWait: the call is handed to another goroutine and the loop
\* goes on to the next item.
ScanWait_Async ==
    /\ runPc = "call"
    /\ \E p \in Callers : pc[p] = "idle" /\ WaitCheck(p, curKey)
    /\ runPc' = "poll"
    /\ i' = i + 1
    /\ waitKey' = curKey
    /\ UNCHANGED <<domains, outputFile, curKey, results, errors, runRet, wrote, queried, attempts, sentKey>>

\* QueryDomain enters rateLimiter.Wait(ctx, apiKey).
ScanWait ==
    /\ runPc = "call"
    /\ WaitCheck(1, curKey)
    /\ runPc' = "inwait"
    /\ waitKey' = curKey
    /\ UNCHANGED <<domains, outputFile, i, curKey, results, errors, runRet, wrote, queried, attempts, sentKey>>

\* Wait has returned: an error fails the item, otherwise the request goes out.
ScanWaitReturn ==
    /\ ~panicked
    /\ runPc = "inwait"
    /\ pc[1] = "idle"
    /\ IF ret[1] = "ok"
       THEN /\ runPc' = "http"
            /\ UNCHANGED <<i, results, errors, runRet, wrote>>
       ELSE ItemFails
    /\ UNCHANGED <<domains, outputFile, curKey, queried, attempts, waitKey, sentKey>>

\* Mutant of ScanHttp: the result is put in front of the earlier ones.
ScanHttp_Prepend ==
    /\ ~panicked
    /\ runPc = "http"
    /\ queried' = queried \cup {i}
    /\ \E ok \in BOOLEAN :
          /\ ctxDone => ~ok
          /\ IF ok
             THEN /\ results' = <<i>> \o results
                  /\ i' = i + 1
                  /\ runPc' = "poll"
                  /\ UNCHANGED <<errors, runRet, wrote>>
             ELSE ItemFails
    /\ sentKey' = curKey
    /\ UNCHANGED <<domains, outputFile, curKey, attempts, waitKey>>

\* Mutant of ScanHttp: the request is built with the key that is current
\* when Wait has returned.
ScanHttp_RereadsKey ==
    /\ ~panicked
    /\ runPc = "http"
    /\ queried' = queried \cup {i}
    /\ \E ok \in BOOLEAN :
          /\ ctxDone => ~ok
          /\ IF ok
             THEN /\ results' = Append(results, i)
                  /\ i' = i + 1
                  /\ runPc' = "poll"
                  /\ UNCHANGED <<errors, runRet, wrote>>
             ELSE ItemFails
    /\ sentKey' = CurrentKey
    /\ UNCHANGED <<domains, outputFile, curKey, attempts, waitKey>>

\* The remote request and the rest of the loop body.  A request made with a
\* cancelled context fails.
ScanHttp ==
    /\ ~panicked
    /\ runPc = "http"
    /\ queried' = queried \cup {i}
    /\ \E ok \in BOOLEAN :
          /\ ctxDone => ~ok
          /\ IF ok
             THEN /\ results' = Append(results, i)
                  /\ i' = i + 1
                  /\ runPc' = "poll"
                  /\ UNCHANGED <<errors, runRet, wrote>>
             ELSE ItemFails
    /\ sentKey' = curKey
    /\ UNCHANGED <<domains, outputFile, curKey, attempts, waitKey>>

\* After the loop: write the results, then apply the failure threshold.
ScanFinish ==
    /\ ~panicked
    /\ runPc = "poll"
    /\ i > domains
    /\ wrote' = (Len(results) > 0 /\ outputFile)
    /\ runRet' = RunVerdict(Len(errors), domains)
    /\ runPc' = "done"
    /\ UNCHANGED <<domains, outputFile, i, curKey, results, errors, queried, attempts, waitKey, sentKey>>

\* cancel() while Run is in progress.
CancelRun ==
    /\ Cancel
    /\ cancelIdx' = IF runPc = "poll" THEN i ELSE i + 1
    /\ cancelInWait' = (runPc = "inwait" /\ pc[1] = "wait")
    /\ UNCHANGED <<rotatedInWait, calledDone, ipVars>>

\* Wait called by the only caller of the limiter, with the state of ctx at
\* the moment of the call.
WaitCall(p, k) ==
    /\ WaitCheck(p, k)
    /\ calledDone' = (ctxDone /\ WaitTime(now) = 0)

\* autoRotate advances the index while Run is in progress.
AutoRotateRun ==
    /\ AutoRotate
    /\ rotatedInWait' = (rotatedInWait \/ (runPc = "inwait" /\ pc[1] = "wait"))
    /\ UNCHANGED <<cancelIdx, cancelInWait, calledDone, ipVars>>

(* ------------------------------ IPRotator ------------------------------ *)
\* url.Parse(proxy): a host:port string without a scheme is rejected ("first
\* path segment in URL cannot contain colon"), a string with a scheme gives
\* the URL of that string.
ParseURL(proxy) ==
    IF proxy = "10.0.0.3:8080" THEN <<"error", proxy>> ELSE <<"url", proxy>>

\* NewIPRotator(proxies); ProxyFunc has not been called yet.
NewIPRotator ==
    /\ proxies \in ProxyLists
    /\ proxyIndex = 0
    /\ proxyFn = "none"
    /\ createdLen = 0
    /\ served = <<>>
    /\ proxyRet = NoURL

\* The program has no IPRotator in use.
InitNoProxy ==
    /\ proxies = <<>>
    /\ proxyIndex = 0
    /\ proxyFn = "none"
    /\ createdLen = 0
    /\ served = <<>>
    /\ proxyRet = NoURL

\* ProxyFunc(): with no proxy it hands out http.ProxyFromEnvironment,
\* otherwise the rotating closure.
ProxyFunc ==
    /\ proxyFn = "none"
    /\ proxyFn' = (IF Len(proxies) = 0 THEN "env" ELSE "rotate")
    /\ createdLen' = Len(proxies)
    /\ UNCHANGED <<proxies, proxyIndex, served, proxyRet>>

\* Mutant of ProxyRequest: the index is advanced before the entry is taken.
ProxyRequest_AdvanceFirst ==
    /\ proxyFn # "none"
    /\ Len(served) < MaxRequests
    /\ IF proxyFn = "env"
       THEN /\ proxyRet' = <<"env", "env">>
            /\ served' = Append(served, NoProxy)
            /\ UNCHANGED proxyIndex
       ELSE IF Len(proxies) = 0
       THEN /\ proxyRet' = NoURL
            /\ served' = Append(served, NoProxy)
            /\ UNCHANGED proxyIndex
       ELSE /\ proxyIndex' = (proxyIndex + 1) % Len(proxies)
            /\ served' = Append(served, proxies[proxyIndex' + 1])
            /\ proxyRet' = ParseURL(proxies[proxyIndex' + 1])
    /\ UNCHANGED <<proxies, proxyFn, createdLen>>

\* The transport asks transport.Proxy for the proxy of one request: the
\* closure takes proxies[currentIndex] and advances the index, all under
\* ir.mu.
ProxyRequest ==
    /\ proxyFn # "none"
    /\ Len(served) < MaxRequests
    /\ IF proxyFn = "env"
       THEN /\ proxyRet' = <<"env", "env">>
            /\ served' = Append(served, NoProxy)
            /\ UNCHANGED proxyIndex
       ELSE IF Len(proxies) = 0
       THEN /\ proxyRet' = NoURL
            /\ served' = Append(served, NoProxy)
            /\ UNCHANGED proxyIndex
       ELSE /\ served' = Append(served, proxies[proxyIndex + 1])
            /\ proxyRet' = ParseURL(proxies[proxyIndex + 1])
            /\ proxyIndex' = (proxyIndex + 1) % Len(proxies)
    /\ UNCHANGED <<proxies, proxyFn, createdLen>>

\* AddProxy(proxy): append under ir.mu.
AddProxy(proxy) ==
    /\ Len(proxies) < MaxProxies
    /\ proxies' = Append(proxies, proxy)
    /\ UNCHANGED <<proxyIndex, proxyFn, createdLen, served, proxyRet>>

(* --------------------------- specifications ---------------------------- *)
\* NewKeyRotator: the fields other than keys, and no call in progress.
InitRotatorIdle ==
    /\ stopChan = "open"
    /\ mu = Unlocked
    /\ rotPc = [p \in Callers |-> "idle"]
    /\ rotRet = NoKey
    /\ stopPanic = FALSE
    /\ manualRotations = 0
    /\ autoRotated = FALSE
    /\ autoRotations = 0
    /\ stopCalls = 0

\* Scanner.Run has not been called.
InitNoBatch ==
    /\ domains = 0
    /\ outputFile = FALSE
    /\ runPc = "idle"
    /\ i = 0
    /\ curKey = NoKey
    /\ results = <<>>
    /\ errors = <<>>
    /\ runRet = "none"
    /\ wrote = FALSE
    /\ queried = {}
    /\ attempts = <<>>
    /\ waitKey = NoKey
    /\ sentKey = NoKey
    /\ cancelIdx = 0
    /\ cancelInWait = FALSE
    /\ rotatedInWait = FALSE
    /\ calledDone = FALSE

\* No rotator and no batch: the RateLimiter is driven directly.
InitNoRun ==
    /\ keys = <<>>
    /\ currentIndex = 0
    /\ nextTick = 0
    /\ InitRotatorIdle
    /\ taskPc = "none"
    /\ started = FALSE
    /\ InitNoBatch

\* One goroutine calling the RateLimiter, one call after the other.
InitSeq == InitGovernor /\ InitCallers(1) /\ deadline = MaxTime /\ InitNoRun /\ InitNoProxy

NextSeq ==
    \/ Tick /\ UNCHANGED <<ctxDone, cancelIdx, cancelInWait, rotatedInWait, calledDone, ipVars, rotVars, runVars>>
    \/ Cancel /\ UNCHANGED <<cancelIdx, cancelInWait, rotatedInWait, calledDone, ipVars, govVars, rotVars, runVars>>
    \/ \E p \in procs, k \in Keys :
          WaitCall(p, k) /\ UNCHANGED <<now, ctxDone, cancelIdx, cancelInWait, rotatedInWait, ipVars, rotVars, runVars>>
    \/ \E p \in procs : WaitWake(p) /\ UNCHANGED <<now, ctxDone, cancelIdx, cancelInWait, rotatedInWait, calledDone, ipVars, rotVars, runVars>>
    \/ \E p \in procs : WaitCancelled(p) /\ UNCHANGED <<now, ctxDone, cancelIdx, cancelInWait, rotatedInWait, calledDone, ipVars, rotVars, runVars>>
    \/ \E p \in procs : WaitCommit(p) /\ UNCHANGED <<now, ctxDone, cancelIdx, cancelInWait, rotatedInWait, calledDone, ipVars, rotVars, runVars>>
    \/ \E p \in procs : Reset(p) /\ UNCHANGED <<now, ctxDone, cancelIdx, cancelInWait, rotatedInWait, calledDone, ipVars, rotVars, runVars>>
    \/ \E p \in procs, k \in Keys :
          GetQuotaStatusCall(p, k) /\ UNCHANGED <<now, ctxDone, cancelIdx, cancelInWait, rotatedInWait, calledDone, ipVars, rotVars, runVars>>

SpecSeq == InitSeq /\ [][NextSeq]_vars

\* An IPRotator used by the transport's goroutines while other goroutines
\* add proxies.
InitProxy ==
    /\ tzOffset = 0
    /\ now = MonthLen
    /\ ctxDone = FALSE
    /\ panicked = FALSE
    /\ limiterMu = Unlocked
    /\ quotaRet = NoStatus
    /\ NewLimiter
    /\ InitCallers(1)
    /\ deadline = MaxTime
    /\ InitNoRun
    /\ NewIPRotator

NextProxy ==
    \/ ProxyFunc /\ UNCHANGED <<now, ctxDone, cancelIdx, cancelInWait, rotatedInWait, calledDone, govVars, rotVars, runVars>>
    \/ ProxyRequest /\ UNCHANGED <<now, ctxDone, cancelIdx, cancelInWait, rotatedInWait, calledDone, govVars, rotVars, runVars>>
    \/ \E proxy \in NewProxies :
          AddProxy(proxy) /\ UNCHANGED <<now, ctxDone, cancelIdx, cancelInWait, rotatedInWait, calledDone, govVars, rotVars, runVars>>

SpecProxy == InitProxy /\ [][NextProxy]_vars

\* NumCallers goroutines sharing one RateLimiter.
InitConc ==
    InitGovernor /\ InitCallers(NumCallers) /\ deadline = now + ConcHorizon /\ InitNoRun
    /\ InitNoProxy

NextConc ==
    \/ Tick /\ UNCHANGED <<ctxDone, cancelIdx, cancelInWait, rotatedInWait, calledDone, ipVars, rotVars, runVars>>
    \/ Cancel /\ UNCHANGED <<cancelIdx, cancelInWait, rotatedInWait, calledDone, ipVars, govVars, rotVars, runVars>>
    \/ \E p \in procs, k \in Keys :
          WaitCheck(p, k) /\ UNCHANGED <<now, ctxDone, cancelIdx, cancelInWait, rotatedInWait, calledDone, ipVars, rotVars, runVars>>
    \/ \E p \in procs : WaitWake(p) /\ UNCHANGED <<now, ctxDone, cancelIdx, cancelInWait, rotatedInWait, calledDone, ipVars, rotVars, runVars>>
    \/ \E p \in procs : WaitCancelled(p) /\ UNCHANGED <<now, ctxDone, cancelIdx, cancelInWait, rotatedInWait, calledDone, ipVars, rotVars, runVars>>
    \/ \E p \in procs : WaitCommit(p) /\ UNCHANGED <<now, ctxDone, cancelIdx, cancelInWait, rotatedInWait, calledDone, ipVars, rotVars, runVars>>
    \/ \E p \in procs : Reset(p) /\ UNCHANGED <<now, ctxDone, cancelIdx, cancelInWait, rotatedInWait, calledDone, ipVars, rotVars, runVars>>

SpecConc == InitConc /\ [][NextConc]_vars

\* NumCallers goroutines sharing one RateLimiter at the beginning of a month
\* in UTC: they call Wait, GetQuotaStatus and Reset.
InitShared == InitConc /\ tzOffset = 0 /\ now = MonthLen

NextShared ==
    \/ NextConc
    \/ \E p \in procs, k \in Keys :
          GetQuotaStatusCall(p, k) /\ UNCHANGED <<now, ctxDone, cancelIdx, cancelInWait, rotatedInWait, calledDone, ipVars, rotVars, runVars>>

SpecShared == InitShared /\ [][NextShared]_vars

\* The wired program: main() builds the rotator and the limiter and calls
\* Run, while the signal listener and autoRotate run beside the batch loop.
\* The limiter is new, or has been used by an earlier Run.
InitRun ==
    /\ InitClock
    /\ (NewLimiter \/ NearLimitLimiter)
    /\ InitCallers(1)
    /\ deadline = now + RunHorizon
    /\ keys \in KeyLists
    /\ currentIndex = 0
    /\ nextTick = now + RotationInterval
    /\ InitRotatorIdle
    /\ taskPc = (IF Len(keys) > 1 THEN "loop" ELSE "none")
    /\ started = (Len(keys) > 1)
    /\ domains \in 1..MaxItems
    /\ outputFile \in BOOLEAN
    /\ runPc = "poll"
    /\ i = 1
    /\ curKey = NoKey
    /\ results = <<>>
    /\ errors = <<>>
    /\ runRet = "none"
    /\ wrote = FALSE
    /\ queried = {}
    /\ attempts = <<>>
    /\ waitKey = NoKey
    /\ sentKey = NoKey
    /\ cancelIdx = 0
    /\ cancelInWait = FALSE
    /\ rotatedInWait = FALSE
    /\ calledDone = FALSE
    /\ InitNoProxy

NextRun ==
    \/ Tick /\ UNCHANGED <<ctxDone, cancelIdx, cancelInWait, rotatedInWait, calledDone, ipVars, rotVars, runVars>>
    \/ CancelRun /\ UNCHANGED <<govVars, rotVars, runVars>>
    \/ AutoRotateRun /\ UNCHANGED <<now, ctxDone, govVars, runVars>>
    \/ ScanPoll /\ UNCHANGED <<now, ctxDone, cancelIdx, cancelInWait, rotatedInWait, calledDone, ipVars, govVars, rotVars>>
    \/ ScanKey /\ UNCHANGED <<now, ctxDone, cancelIdx, cancelInWait, rotatedInWait, calledDone, ipVars, govVars, rotVars>>
    \/ ScanWait /\ UNCHANGED <<now, ctxDone, cancelIdx, cancelInWait, rotatedInWait, calledDone, ipVars, rotVars>>
    \/ WaitWake(1) /\ UNCHANGED <<now, ctxDone, cancelIdx, cancelInWait, rotatedInWait, calledDone, ipVars, rotVars, runVars>>
    \/ WaitCancelled(1) /\ UNCHANGED <<now, ctxDone, cancelIdx, cancelInWait, rotatedInWait, calledDone, ipVars, rotVars, runVars>>
    \/ WaitCommit(1) /\ UNCHANGED <<now, ctxDone, cancelIdx, cancelInWait, rotatedInWait, calledDone, ipVars, rotVars, runVars>>
    \/ ScanWaitReturn /\ UNCHANGED <<now, ctxDone, cancelIdx, cancelInWait, rotatedInWait, calledDone, ipVars, govVars, rotVars>>
    \/ ScanHttp /\ UNCHANGED <<now, ctxDone, cancelIdx, cancelInWait, rotatedInWait, calledDone, ipVars, govVars, rotVars>>
    \/ ScanFinish /\ UNCHANGED <<now, ctxDone, cancelIdx, cancelInWait, rotatedInWait, calledDone, ipVars, govVars, rotVars>>

SpecRun == InitRun /\ [][NextRun]_vars

\* Scanner.Run over a KeyRotator built from any key list, the empty one
\* included: NewKeyRotator accepts it and starts no goroutine for it.
InitRunAnyKeys ==
    /\ tzOffset = 0
    /\ now = MonthLen
    /\ ctxDone = FALSE
    /\ panicked = FALSE
    /\ limiterMu = Unlocked
    /\ quotaRet = NoStatus
    /\ (NewLimiter \/ NearLimitLimiter)
    /\ InitCallers(1)
    /\ deadline = now + RunHorizon
    /\ keys \in KeyLists \cup {<<>>}
    /\ currentIndex = 0
    /\ nextTick = now + RotationInterval
    /\ InitRotatorIdle
    /\ taskPc = (IF Len(keys) > 1 THEN "loop" ELSE "none")
    /\ started = (Len(keys) > 1)
    /\ domains \in 1..MaxItems
    /\ outputFile \in BOOLEAN
    /\ runPc = "poll"
    /\ i = 1
    /\ curKey = NoKey
    /\ results = <<>>
    /\ errors = <<>>
    /\ runRet = "none"
    /\ wrote = FALSE
    /\ queried = {}
    /\ attempts = <<>>
    /\ waitKey = NoKey
    /\ sentKey = NoKey
    /\ cancelIdx = 0
    /\ cancelInWait = FALSE
    /\ rotatedInWait = FALSE
    /\ calledDone = FALSE
    /\ InitNoProxy

SpecRunAnyKeys == InitRunAnyKeys /\ [][NextRun]_vars

\* Time passes while Wait is suspended in its select.
WaitClock ==
    /\ ~panicked
    /\ \E p \in procs : pc[p] = "wait" /\ now < wakeAt[p]
    /\ now' = now + 1
    /\ admitted' = [k \in Keys |->
                      IF CrossesBoundary(now) /\ keyQuotas[k] # NoQuota THEN Void
                      ELSE admitted[k]]
    /\ dayAdmitted' = [k \in Keys |->
                         IF Truncate(now + 1) = Truncate(now) THEN dayAdmitted[k]
                         ELSE IF \E p \in procs : pc[p] # "idle" /\ apiKey[p] = k THEN Void
                         ELSE <<0>>]
    /\ UNCHANGED <<deadline, tzOffset, lastRequest, keyQuotas, procs, pc, apiKey,
                   wakeAt, ret, pre, panicked, limiterMu, quotaRet>>

\* The wired program started at the beginning of a month in UTC; the clock
\* is followed while the batch loop is suspended in Wait.
InitRunFair == InitRun /\ tzOffset = 0 /\ now = MonthLen

WaitClockStep ==
    WaitClock /\ UNCHANGED <<ctxDone, cancelIdx, cancelInWait, rotatedInWait, calledDone, ipVars, rotVars, runVars>>

\* A step of the goroutine that runs Scanner.Run.
RunStep ==
    \/ ScanPoll /\ UNCHANGED <<now, ctxDone, cancelIdx, cancelInWait, rotatedInWait, calledDone, ipVars, govVars, rotVars>>
    \/ ScanKey /\ UNCHANGED <<now, ctxDone, cancelIdx, cancelInWait, rotatedInWait, calledDone, ipVars, govVars, rotVars>>
    \/ ScanWait /\ UNCHANGED <<now, ctxDone, cancelIdx, cancelInWait, rotatedInWait, calledDone, ipVars, rotVars>>
    \/ WaitWake(1) /\ UNCHANGED <<now, ctxDone, cancelIdx, cancelInWait, rotatedInWait, calledDone, ipVars, rotVars, runVars>>
    \/ WaitCancelled(1) /\ UNCHANGED <<now, ctxDone, cancelIdx, cancelInWait, rotatedInWait, calledDone, ipVars, rotVars, runVars>>
    \/ WaitCommit(1) /\ UNCHANGED <<now, ctxDone, cancelIdx, cancelInWait, rotatedInWait, calledDone, ipVars, rotVars, runVars>>
    \/ ScanWaitReturn /\ UNCHANGED <<now, ctxDone, cancelIdx, cancelInWait, rotatedInWait, calledDone, ipVars, govVars, rotVars>>
    \/ ScanHttp /\ UNCHANGED <<now, ctxDone, cancelIdx, cancelInWait, rotatedInWait, calledDone, ipVars, govVars, rotVars>>
    \/ ScanFinish /\ UNCHANGED <<now, ctxDone, cancelIdx, cancelInWait, rotatedInWait, calledDone, ipVars, govVars, rotVars>>

NextRunFair ==
    \/ WaitClockStep
    \/ CancelRun /\ UNCHANGED <<govVars, rotVars, runVars>>
    \/ AutoRotateRun /\ UNCHANGED <<now, ctxDone, govVars, runVars>>
    \/ RunStep

\* The scheduler runs the batch goroutine whenever it can take a step, every
\* Wait and every request returns, and time passes while Wait is suspended.
SpecRunFair ==
    /\ InitRunFair
    /\ [][NextRunFair]_vars
    /\ WF_vars(WaitClockStep)
    /\ WF_vars(RunStep)

\* The variables of the RateLimiter other than the model's deadline.
limVars == <<tzOffset, lastRequest, keyQuotas, procs, pc, apiKey, wakeAt, ret,
             pre, admitted, panicked, limiterMu, quotaRet, dayAdmitted>>

\* A KeyRotator right after NewKeyRotator, used by NumCallers goroutines
\* while its autoRotate goroutine, if any, is scheduled at some time.
InitRot ==
    /\ tzOffset = 0
    /\ now = MonthLen
    /\ ctxDone = FALSE
    /\ panicked = FALSE
    /\ limiterMu = Unlocked
    /\ quotaRet = NoStatus
    /\ NewLimiter
    /\ InitCallers(NumCallers)
    /\ deadline = now + RotHorizon
    /\ keys \in RotKeyLists
    /\ currentIndex = 0
    /\ nextTick = 0
    /\ InitRotatorIdle
    /\ taskPc = (IF Len(keys) > 1 THEN "spawned" ELSE "none")
    /\ started = FALSE
    /\ InitNoBatch
    /\ InitNoProxy

ClockStep == Tick /\ UNCHANGED <<ctxDone, cancelIdx, cancelInWait, rotatedInWait, calledDone, ipVars, rotVars, runVars>>

AutoRotateStep ==
    \/ AutoRotateStart /\ UNCHANGED <<now, ctxDone, cancelIdx, cancelInWait, rotatedInWait, calledDone, ipVars, limVars, runVars>>
    \/ AutoRotateTick /\ UNCHANGED <<now, ctxDone, cancelIdx, cancelInWait, rotatedInWait, calledDone, ipVars, govVars, runVars>>
    \/ AutoRotateKey /\ UNCHANGED <<now, ctxDone, cancelIdx, cancelInWait, rotatedInWait, calledDone, ipVars, govVars, runVars>>
    \/ AutoRotateExit /\ UNCHANGED <<now, ctxDone, cancelIdx, cancelInWait, rotatedInWait, calledDone, ipVars, govVars, runVars>>

CurrentKeyStep(p) ==
    CurrentKeyRead(p) /\ UNCHANGED <<now, ctxDone, cancelIdx, cancelInWait, rotatedInWait, calledDone, ipVars, govVars, runVars>>

StopStep(p) ==
    Stop(p) /\ UNCHANGED <<now, ctxDone, cancelIdx, cancelInWait, rotatedInWait, calledDone, ipVars, govVars, runVars>>

NextRot ==
    \/ ClockStep
    \/ AutoRotateStep
    \/ \E p \in Callers :
          CurrentKeyEnter(p) /\ UNCHANGED <<now, ctxDone, cancelIdx, cancelInWait, rotatedInWait, calledDone, ipVars, govVars, runVars>>
    \/ \E p \in Callers : CurrentKeyStep(p)
    \/ \E p \in Callers :
          RotateKey(p) /\ UNCHANGED <<now, ctxDone, cancelIdx, cancelInWait, rotatedInWait, calledDone, ipVars, govVars, runVars>>
    \/ \E p \in Callers :
          StopEnter(p) /\ UNCHANGED <<now, ctxDone, cancelIdx, cancelInWait, rotatedInWait, calledDone, ipVars, govVars, runVars>>
    \/ \E p \in Callers : StopStep(p)

SpecRot == InitRot /\ [][NextRot]_vars

\* The scheduler runs every goroutine that can take a step and the clock
\* advances: the autoRotate goroutine, and the callers that are inside
\* CurrentKey or Stop.
SpecRotFair ==
    /\ SpecRot
    /\ WF_vars(ClockStep)
    /\ WF_vars(AutoRotateStep)
    /\ \A p \in Callers : WF_vars(CurrentKeyStep(p)) /\ WF_vars(StopStep(p))

(* ------------------------------ properties ----------------------------- *)
\* The step is the commit of an admitted Wait call of caller p.
Commits(p) == pc[p] = "commit" /\ pc'[p] = "idle" /\ ret'[p] = "ok"

\* The step is a Wait(k) call of caller p that checkQuota rejects.
Rejects(p, k) == WaitCheck(p, k) /\ ret'[p] \in {"daily", "monthly"}

\* C1: with one sequential caller, the timestamp an admitted Wait writes to
\* lastRequest is at least MinInterval after the timestamp written by the
\* admitted Wait before it, whichever keys the two calls name.
C1_SeqPacing ==
    [][\A p \in Callers :
          (Commits(p) /\ lastRequest # ZeroTime)
              => lastRequest' - lastRequest >= MinInterval]_vars

C1_Witness ==
    /\ ret[1] = "ok"
    /\ admitted["k1"] # Void /\ admitted["k1"][1] >= 1
    /\ admitted["k2"] # Void /\ admitted["k2"][1] >= 1

\* C2: with several callers sharing the RateLimiter, every admitted Wait
\* commits at least MinInterval after the commit before it.
C2_ConcPacing ==
    [][\A p \in Callers :
          Commits(p) => (lastRequest = ZeroTime \/ now >= lastRequest + MinInterval)]_vars

\* C3: with one sequential caller DailyCount never exceeds DailyLimit; within
\* one daily window and below the monthly limit, a Wait issued at
\* DailyLimit - 1 passes the quota check and its commit brings DailyCount to
\* DailyLimit, and a Wait issued at DailyLimit fails with the daily error.
C3_DailyCeiling ==
    /\ [](\A k \in Keys : GetQuotaStatus(k)[1] <= DailyLimit)
    /\ [][\A p \in Callers, k \in Keys :
            (WaitCheck(p, k) /\ ~DayCrossed(k))
               => /\ (GetQuotaStatus(k)[1] = DailyLimit - 1 /\ GetQuotaStatus(k)[2] < MonthlyLimit
                        /\ ~MonthCrossed(k))
                      => (pc'[p] \in {"wait", "commit"} /\ apiKey'[p] = k)
                  /\ GetQuotaStatus(k)[1] >= DailyLimit => ret'[p] = "daily"]_vars
    /\ [][\A p \in Callers :
            (Commits(p) /\ GetQuotaStatus(apiKey[p])[1] = DailyLimit - 1)
               => QuotaStatus(keyQuotas', apiKey[p])[1] = DailyLimit]_vars

C3_Witness ==
    /\ ret[1] = "daily"
    /\ GetQuotaStatus("k1") = <<DailyLimit, DailyLimit>>

\* C4: with K callers sharing the RateLimiter, DailyCount never exceeds
\* DailyLimit + (K - 1) and MonthlyCount never exceeds MonthlyLimit + (K - 1).
C4_BoundedOvershoot ==
    \A k \in Keys :
        /\ GetQuotaStatus(k)[1] <= DailyLimit + (Cardinality(procs) - 1)
        /\ GetQuotaStatus(k)[2] <= MonthlyLimit + (Cardinality(procs) - 1)

C4_Witness ==
    /\ Cardinality(procs) >= 2
    /\ GetQuotaStatus("k1")[1] = DailyLimit + (Cardinality(procs) - 1)

C6_QuotaAccounting ==
    \A k \in Keys :
        admitted[k] # Void => GetQuotaStatus(k) = <<admitted[k][1], admitted[k][1]>>

C6_Witness ==
    /\ admitted["k2"] # Void /\ admitted["k2"][1] >= 2
    /\ ret[1] = "ok"

\* C7 as stated: a Wait cancelled during its pacing delay returns with
\* DailyCount, MonthlyCount of its key and lastRequest as before the call.
C7_CancelKeepsState ==
    [][\A p \in Callers :
          WaitCancelled(p) =>
             /\ QuotaStatus(keyQuotas', apiKey[p]) = <<pre[p][1], pre[p][2]>>
             /\ lastRequest' = pre[p][3]]_vars

\* C7 amended: a Wait cancelled during its pacing delay returns with
\* lastRequest as before the call and with each counter of its key as before
\* the call, except that a counter whose window boundary had been crossed
\* when the call was made is reset to 0; no counter is incremented.
C7_CancelKeepsOrRolls ==
    [][\A p \in Callers :
          WaitCancelled(p) =>
             /\ QuotaStatus(keyQuotas', apiKey[p])[1] = IF pre[p][4] THEN 0 ELSE pre[p][1]
             /\ QuotaStatus(keyQuotas', apiKey[p])[2] = IF pre[p][5] THEN 0 ELSE pre[p][2]
             /\ lastRequest' = pre[p][3]]_vars

C7_Witness ==
    /\ ret[1] = "cancelled"
    /\ GetQuotaStatus("k2") = <<0, 1>>

C9_PolledCancellation ==
    /\ cancelIdx # 0 => \A j \in queried : j < cancelIdx
    /\ (runPc = "done" /\ cancelIdx \in 1..domains) => runRet = "cancelled"

C9_Witness ==
    /\ runRet = "cancelled"
    /\ domains = 3
    /\ cancelIdx = 2
    /\ queried = {1}

\* C10: when Wait was cancelled during its pacing delay for some item, the
\* last item included, Run returns the cancellation cause.
C10_CancelInWaitFatal ==
    (runPc = "done" /\ cancelInWait) => runRet = "cancelled"

\* C11: on a KeyRotator with at least one key, currentIndex is a valid
\* position of keys in every state, under any interleaving of RotateKey
\* calls, automatic rotations, CurrentKey reads and Stop.
C11_IndexInRange ==
    Len(keys) >= 1 => (0 <= currentIndex /\ currentIndex < Len(keys))

C11_Witness ==
    /\ Len(keys) = 3
    /\ currentIndex = 0
    /\ manualRotations >= 1
    /\ autoRotated
    /\ stopCalls >= 1

\* C12: on a KeyRotator with exactly one key, currentIndex stays 0, and a
\* RotateKey call returns to its caller with that key: it is never left at
\* the read lock of CurrentKey while holding the write lock itself.
C12_SingleKeyNoOp ==
    Len(keys) = 1 =>
        /\ currentIndex = 0
        /\ rotRet \in {NoKey, keys[1]}
        /\ \A p \in Callers : ~(rotPc[p] = "read" /\ mu = p)

\* C13: on a KeyRotator with k >= 2 keys, a RotateKey call returns the key at
\* (previous index + 1) mod k and makes it current; with no automatic
\* rotation in between, the current key is the original one exactly after a
\* multiple of k manual rotations.
C13_RotationPeriod ==
    /\ [][\A p \in Callers :
            (RotateKey(p) /\ Len(keys) >= 2)
               => /\ currentIndex' = (currentIndex + 1) % Len(keys)
                  /\ rotRet' = keys[((currentIndex + 1) % Len(keys)) + 1]]_vars
    /\ []((Len(keys) >= 2 /\ ~autoRotated)
            => (CurrentKey = keys[1] <=> manualRotations % Len(keys) = 0))

C13_Witness ==
    /\ Len(keys) = 3
    /\ manualRotations = 3
    /\ ~autoRotated
    /\ CurrentKey = "k1"
    /\ rotRet = "k1"

\* C14: however the Stop calls interleave with each other and with the
\* start and the ticks of autoRotate, stopChan is never closed twice, and
\* every Stop call returns (unless a RotateKey call on a rotator with at
\* most one key is holding the lock for ever, see C12).
C14_StopIdempotent ==
    /\ [](~stopPanic)
    /\ \A p \in Callers :
          (rotPc[p] = "stop")
             ~> (rotPc[p] = "idle" \/ \E q \in Callers : rotPc[q] = "read" /\ mu = q)

C14_Witness ==
    /\ stopCalls = 2
    /\ \A p \in Callers : rotPc[p] = "idle"
    /\ stopChan = "closed"
    /\ taskPc = "done"
    /\ ~stopPanic

\* C15: once Stop has been called on a KeyRotator with more than one key,
\* the autoRotate goroutine eventually returns.
C15_StopTerminatesTask ==
    (Len(keys) > 1 /\ stopCalls > 0) ~> (taskPc = "done")

\* C16: on a new KeyRotator with more than one key, as long as no caller
\* rotates it and Stop is not called, autoRotate eventually makes the current
\* key differ from the initial one.
C16_AutoRotationLive ==
    (Len(keys) > 1 /\ manualRotations = 0 /\ stopCalls = 0 /\ ~autoRotated)
        ~> ((Len(keys) > 1 /\ CurrentKey # keys[1]) \/ manualRotations > 0 \/ stopCalls > 0)

C16_Witness ==
    /\ Len(keys) > 1
    /\ manualRotations = 0
    /\ stopCalls = 0
    /\ autoRotated
    /\ CurrentKey # keys[1]

C18_SuccessOrder ==
    \A a, b \in 1..Len(results) : a < b => results[a] < results[b]

C18_Witness ==
    /\ wrote
    /\ results = <<1, 3>>
    /\ errors = <<2>>

\* C19: when Run returns the cancellation cause, WriteResults has not been
\* called, whatever results had been collected.
C19_CancelDiscards ==
    runRet = "cancelled" => ~wrote

C19_Witness ==
    /\ runRet = "cancelled"
    /\ outputFile
    /\ Len(results) >= 2

\* C20: the batch loop has at most one Wait call in progress, only while it
\* is inside QueryDomain for the current item, and every item before the
\* current one has returned with a result or a failure.
C20_Sequential ==
    /\ Cardinality({p \in Callers : pc[p] # "idle"}) <= 1
    /\ (\E p \in Callers : pc[p] # "idle") => runPc = "inwait"
    /\ runPc \in {"poll", "key", "call", "inwait", "http"}
          => Len(results) + Len(errors) = i - 1

C20_Witness ==
    /\ runPc = "inwait"
    /\ pc[1] = "wait"
    /\ i = 2
    /\ results = <<1>>

\* C21: the first Wait(k) after the clock has crossed a day boundary resets
\* DailyCount of k to 0 before it counts itself, no later Wait(k) in the same
\* day resets it again, and after m >= 1 admitted Wait(k) calls made in the
\* new day DailyCount of k is m.
C21_ResetOncePerCrossing ==
    /\ [][\A p \in Callers, k \in Keys :
            WaitCheck(p, k) =>
               /\ dayAdmitted[k] = <<0>> => QuotaStatus(keyQuotas', k)[1] = 0
               /\ (dayAdmitted[k] # Void /\ dayAdmitted[k][1] >= 1)
                     => QuotaStatus(keyQuotas', k)[1] = GetQuotaStatus(k)[1]]_vars
    /\ [](\A k \in Keys :
            (dayAdmitted[k] # Void /\ dayAdmitted[k][1] >= 1)
               => GetQuotaStatus(k)[1] = dayAdmitted[k][1])

C21_Witness ==
    /\ dayAdmitted["k1"] = <<2>>
    /\ GetQuotaStatus("k1")[1] = 2
    /\ GetQuotaStatus("k1")[2] > 2
    /\ keyQuotas["k1"].LastReset = Truncate(now)

\* C22: in every step, DailyCount and MonthlyCount of every key either stay
\* as they are, or grow by exactly 1 in the commit of an admitted Wait for
\* that key, or become 0 in a Wait for that key that finds the counter's
\* window boundary crossed, or become 0 in Reset; nothing else lowers them.
C22_CounterSteps ==
    [][\A k \in Keys :
          LET before == GetQuotaStatus(k)
              after == QuotaStatus(keyQuotas', k)
              counted == \E p \in Callers : Commits(p) /\ apiKey[p] = k
              cleared == \E p \in Callers : Reset(p)
          IN /\ \/ after[1] = before[1]
                \/ after[1] = before[1] + 1 /\ counted
                \/ after[1] = 0 /\ (\E p \in Callers : WaitCheck(p, k)) /\ DayCrossed(k)
                \/ after[1] = 0 /\ cleared
             /\ \/ after[2] = before[2]
                \/ after[2] = before[2] + 1 /\ counted
                \/ after[2] = 0 /\ (\E p \in Callers : WaitCheck(p, k)) /\ MonthCrossed(k)
                \/ after[2] = 0 /\ cleared]_vars

C22_Witness ==
    /\ GetQuotaStatus("k1") = <<1, DailyLimit + 1>>
    /\ ret[1] = "ok"

\* C23: GetQuotaStatus(k) returns the two counters of k, (0, 0) for a key
\* that has no entry because it was never passed to Wait, and changes
\* nothing in the RateLimiter: it creates no entry, resets no expired window
\* and leaves lastRequest alone.
C23_StatusReadOnly ==
    [][\A p \in Callers, k \in Keys :
          GetQuotaStatusCall(p, k) =>
             /\ keyQuotas[k] = NoQuota => quotaRet' = <<0, 0>>
             /\ keyQuotas[k] # NoQuota
                   => quotaRet' = <<keyQuotas[k].DailyCount, keyQuotas[k].MonthlyCount>>
             /\ keyQuotas' = keyQuotas
             /\ lastRequest' = lastRequest
             /\ UNCHANGED <<pc, apiKey, wakeAt, ret, panicked, limiterMu>>]_vars

C23_Witness ==
    /\ quotaRet = <<0, 0>>
    /\ keyQuotas["k2"] = NoQuota
    /\ keyQuotas["k1"] # NoQuota
    /\ GetQuotaStatus("k1")[1] > 0
    /\ DayCrossed("k1")

\* C24: a Reset made while no Wait is in progress leaves GetQuotaStatus(k) at
\* (0, 0) for every key and lastRequest unset, which is the state New()
\* builds; a Wait called in that state is admitted without pacing delay.
C24_ResetClears ==
    /\ [][\A p \in Callers :
            (Reset(p) /\ \A q \in Callers : pc[q] = "idle")
               => /\ \A k \in Keys : QuotaStatus(keyQuotas', k) = <<0, 0>>
                  /\ keyQuotas' = [k \in Keys |-> NoQuota]
                  /\ lastRequest' = ZeroTime]_vars
    /\ [][\A p \in Callers, k \in Keys :
            (WaitCheck(p, k) /\ lastRequest = ZeroTime
                /\ \A j \in Keys : keyQuotas[j] = NoQuota)
               => (pc'[p] = "commit" /\ apiKey'[p] = k /\ wakeAt'[p] = 0)]_vars

C24_Witness ==
    /\ ret[1] = "ok"
    /\ lastRequest = ZeroTime
    /\ \A k \in Keys : keyQuotas[k] = NoQuota
    /\ pc[1] = "idle"

\* C25: a CurrentKey call returns the key stored at currentIndex, and the
\* empty string on a KeyRotator built without keys; before any rotation the
\* key at currentIndex is the first key of the list.
C25_CurrentKeyAtIndex ==
    /\ [][\A p \in Callers :
            CurrentKeyRead(p) =>
               rotRet' = IF Len(keys) = 0 THEN NoKey ELSE keys[currentIndex + 1]]_vars
    /\ []((Len(keys) >= 1 /\ manualRotations = 0 /\ ~autoRotated)
            => (currentIndex = 0 /\ CurrentKey = keys[1]))
    /\ [](Len(keys) = 0 => CurrentKey = NoKey)

C25_Witness ==
    /\ Len(keys) = 3
    /\ manualRotations = 0
    /\ autoRotated
    /\ currentIndex = 1
    /\ rotRet = "k2"

\* C26: every Run eventually returns, with exactly one of the cancellation
\* cause, nil and the aggregate failure, and with none of them before; once
\* it has returned, no item is processed, the RateLimiter is not called and
\* nothing of the batch changes any more.
C26_RunTerminates ==
    /\ <>(runPc = "done")
    /\ [](runPc = "done" <=> runRet \in {"cancelled", "nil", "failed"})
    /\ [](runPc # "done" => runRet = "none")
    /\ [][runPc = "done" => (runVars' = runVars /\ pc' = pc /\ keyQuotas' = keyQuotas)]_vars

C26_Witness ==
    /\ runPc = "done"
    /\ runRet = "failed"
    /\ domains = 3
    /\ attempts = <<1, 2, 3>>
    /\ queried = {1, 2, 3}

\* C27: with the counters of k as checkQuota leaves them after rolling the
\* expired windows, Wait(k) returns the daily error exactly when DailyCount
\* has reached DailyLimit, whatever MonthlyCount is; it returns the monthly
\* error exactly when DailyCount is below DailyLimit and MonthlyCount has
\* reached MonthlyLimit; otherwise it passes the quota check.
C27_DailyBeforeMonthly ==
    [][\A p \in Callers, k \in Keys :
          WaitCheck(p, k) =>
             LET rolled == QuotaStatus(keyQuotas', k)
             IN /\ ret'[p] = "daily" <=> rolled[1] >= DailyLimit
                /\ ret'[p] = "monthly"
                      <=> (rolled[1] < DailyLimit /\ rolled[2] >= MonthlyLimit)
                /\ (rolled[1] < DailyLimit /\ rolled[2] < MonthlyLimit)
                      <=> (pc'[p] \in {"wait", "commit"} /\ apiKey'[p] = k)]_vars

C27_Witness ==
    /\ ret[1] = "daily"
    /\ GetQuotaStatus("k1")[1] >= DailyLimit
    /\ GetQuotaStatus("k1")[2] >= MonthlyLimit
    /\ keyQuotas["k2"] = NoQuota

\* C28: the request for an item is sent only in the step that follows an
\* admitted Wait for that item, with the key that was passed to that Wait,
\* also when autoRotate has advanced the index while Wait was suspended; an
\* item whose Wait returned a quota error or the cancellation cause is left
\* without a request, then and later.
C28_QueryAfterAdmission ==
    /\ [][queried' # queried => (runPc = "http" /\ queried' = queried \cup {i})]_vars
    /\ [][(runPc = "http" /\ runPc' # "http")
            => /\ pc[1] = "idle" /\ ret[1] = "ok"
               /\ waitKey # NoKey
               /\ sentKey' = waitKey]_vars
    /\ [][(runPc = "inwait" /\ runPc' # "inwait" /\ ret[1] # "ok")
            => (i' = i + 1 /\ i \notin queried')]_vars
    /\ [](\A j \in queried : j < i)
    /\ [][i' >= i]_vars

C28_Witness ==
    /\ rotatedInWait
    /\ CurrentKey = "k2"
    /\ sentKey = "k1"
    /\ queried = {1, 2}
    /\ i = 3

\* C29: while a caller is suspended in Wait the lock of the RateLimiter is
\* free: every other caller that is not itself inside Wait can at once run
\* GetQuotaStatus, Reset and the first critical section of its own Wait,
\* for any key.
C29_LockFreeInSuspension ==
    \A p \in procs :
        (pc[p] = "wait" /\ ~panicked) =>
            /\ limiterMu = Unlocked
            /\ \A q \in procs \ {p}, k \in Keys :
                   pc[q] = "idle" =>
                      /\ ENABLED GetQuotaStatusCall(q, k)
                      /\ ENABLED Reset(q)
                      /\ ENABLED WaitCheck(q, k)

C29_Witness ==
    /\ pc[1] = "wait"
    /\ now < wakeAt[1]
    /\ pc[2] = "idle"
    /\ quotaRet = <<DailyLimit - 1, DailyLimit - 1>>
    /\ ret[2] = "ok"

\* C30: whatever Reset calls run while a Wait(k) call is between its quota
\* check and its commit, the call still has an entry for k in keyQuotas, and
\* the commit does not dereference a missing entry.
C30_CommitFindsQuota ==
    /\ \A p \in procs : pc[p] \in {"wait", "commit"} => keyQuotas[apiKey[p]] # NoQuota
    /\ ~panicked

\* C31: once Stop has closed stopChan and returned, the autoRotate goroutine
\* never changes currentIndex again: every later change of currentIndex is a
\* RotateKey call of a caller.
C31_NoRotationAfterStop ==
    [][(stopChan = "closed" /\ currentIndex' # currentIndex)
          => manualRotations' = manualRotations + 1]_vars

\* C32: on a KeyRotator with k >= 2 keys, after m RotateKey calls by callers
\* and a RotateKey calls by autoRotate, in any interleaving, currentIndex is
\* (m + a) mod k; each RotateKey call of a caller returns the key at the
\* index that the call itself has set.
C32_RotationsAtomic ==
    /\ [](Len(keys) >= 2
            => currentIndex = (manualRotations + autoRotations) % Len(keys))
    /\ [][(Len(keys) >= 2 /\ manualRotations' # manualRotations)
            => /\ manualRotations' = manualRotations + 1
               /\ autoRotations' = autoRotations
               /\ rotRet' = keys[currentIndex' + 1]]_vars
    /\ [][autoRotations' # autoRotations
            => (autoRotations' = autoRotations + 1 /\ manualRotations' = manualRotations)]_vars

C32_Witness ==
    /\ Len(keys) = 3
    /\ manualRotations = 3
    /\ autoRotations = 1
    /\ currentIndex = 1
    /\ rotRet = "k2"

\* C33: a step of a Wait(k) call, whether the call ends admitted, rejected
\* or cancelled, leaves the entry of every other key (counters and window
\* markers) as it is; and a Wait(k) call whose own counters are below both
\* limits after the roll is not rejected, whatever the counters of the other
\* keys are.
C33_KeyIsolation ==
    /\ [][\A p \in Callers, k \in Keys :
            (WaitCheck(p, k) \/ (apiKey[p] = k /\ pc'[p] # pc[p]))
               => \A j \in Keys \ {k} : keyQuotas'[j] = keyQuotas[j]]_vars
    /\ [][\A p \in Callers, k \in Keys :
            (WaitCheck(p, k)
                /\ QuotaStatus(keyQuotas', k)[1] < DailyLimit
                /\ QuotaStatus(keyQuotas', k)[2] < MonthlyLimit)
               => (ret'[p] = "none" /\ pc'[p] # "idle")]_vars

C33_Witness ==
    /\ GetQuotaStatus("k1") = <<DailyLimit, MonthlyLimit>>
    /\ GetQuotaStatus("k2") = <<2, 2>>
    /\ ret[1] = "ok"
    /\ ctxDone

\* C34: after the quota check of a Wait(k) call the daily window of k
\* starts at the start of the current day (0 <= now - LastReset < one day),
\* the monthly window of k starts at the first instant of the month that
\* contains now (MonthReset <= now < MonthReset + one month), and neither
\* marker is earlier than it was before the call.
C34_WindowMarkers ==
    [][\A p \in Callers, k \in Keys :
          WaitCheck(p, k)
             => /\ 0 <= now - keyQuotas'[k].LastReset
                /\ now - keyQuotas'[k].LastReset < DayLen
                /\ keyQuotas'[k].MonthReset <= now
                /\ now < keyQuotas'[k].MonthReset + MonthLen
                /\ keyQuotas[k] # NoQuota
                      => /\ keyQuotas'[k].LastReset >= keyQuotas[k].LastReset
                         /\ keyQuotas'[k].MonthReset >= keyQuotas[k].MonthReset]_vars

\* C35: Wait consults ctx only while it is suspended. A Wait(k) call made
\* with ctx already done, that needs no pacing delay and passes the quota
\* check, goes straight to the commit and is not cancelled; its commit
\* returns success, stamps lastRequest with the current time and adds one to
\* both counters of k.
C35_CancelOnlyWhileSuspended ==
    /\ [][\A p \in Callers, k \in Keys :
            (WaitCheck(p, k) /\ ctxDone /\ WaitTime(now) = 0
                /\ QuotaError(RollQuota(keyQuotas[k], now)) = "nil")
               => (pc'[p] = "commit" /\ ret'[p] = "none")]_vars
    /\ [][\A p \in Callers :
            (calledDone /\ pc[p] = "commit" /\ pc'[p] = "idle")
               => /\ ret'[p] = "ok"
                  /\ lastRequest' = now
                  /\ QuotaStatus(keyQuotas', apiKey[p]) =
                        <<QuotaStatus(keyQuotas, apiKey[p])[1] + 1,
                          QuotaStatus(keyQuotas, apiKey[p])[2] + 1>>]_vars

C35_Witness ==
    /\ calledDone
    /\ ctxDone
    /\ pc[1] = "idle"
    /\ ret[1] = "ok"
    /\ lastRequest = now
    /\ GetQuotaStatus("k2") = <<1, 1>>

\* C36: when CurrentKey returns the empty key, the item's call fails before
\* Wait is called: the step that reads the key records the item as a failure
\* and goes on to the next item, no Wait call and no request is made for the
\* item, and the limiter's state is left as it was.
C36_EmptyKeyFailsItem ==
    /\ [][(runPc = "key" /\ CurrentKey = NoKey /\ runPc' # runPc)
            => /\ errors' = Append(errors, i)
               /\ results' = results
               /\ runPc' = "poll"
               /\ i' = i + 1
               /\ waitKey' = NoKey
               /\ sentKey' = NoKey
               /\ queried' = queried
               /\ UNCHANGED govVars]_vars
    /\ [][Len(keys) = 0
            => UNCHANGED <<lastRequest, keyQuotas, pc, apiKey, ret, wakeAt, limiterMu>>]_vars
    /\ [](Len(keys) = 0 => (queried = {} /\ results = <<>>))

C36_Witness ==
    /\ keys = <<>>
    /\ runPc = "done"
    /\ domains = MaxItems
    /\ Len(errors) = MaxItems
    /\ attempts = errors
    /\ results = <<>>
    /\ queried = {}
    /\ ret[1] = "none"
    /\ runRet = "failed"

\* C37: the lock of the RateLimiter and the lock of the KeyRotator are never
\* held at the same time, and the wired program has no deadlock: as long as
\* Run has not returned, the batch goroutine can take a step, or it is
\* suspended in Wait with its timer running; and the autoRotate goroutine
\* can rotate whenever its tick is due.
C37_NoDeadlock ==
    /\ (limiterMu = Unlocked \/ mu = Unlocked)
    /\ ~panicked
    /\ runPc # "done"
          => \/ ENABLED RunStep
             \/ (pc[1] = "wait" /\ now < wakeAt[1] /\ ENABLED WaitClockStep)
    /\ (taskPc = "loop" /\ now >= nextTick) => ENABLED AutoRotate

C37_Witness ==
    /\ runPc = "inwait"
    /\ pc[1] = "wait"
    /\ now < wakeAt[1]
    /\ ~ctxDone
    /\ ~(ENABLED RunStep)
    /\ autoRotations >= 1
    /\ Len(results) >= 1

\* C38: when ProxyFunc was created on an IPRotator with n >= 1 proxies and
\* no proxy has been added since, the i-th request (counted from 0) took
\* proxies[i mod n] and the latest request got url.Parse of the entry it
\* took; and whatever requests and AddProxy calls have run, currentIndex is
\* at least 0 and, once there is a proxy, below the number of proxies.
C38_ProxyRoundRobin ==
    /\ (proxyFn = "rotate" /\ Len(proxies) = createdLen)
          => /\ createdLen >= 1
             /\ \A j \in 1..Len(served) :
                    served[j] = proxies[((j - 1) % createdLen) + 1]
             /\ Len(served) > 0 => proxyRet = ParseURL(served[Len(served)])
             /\ proxyIndex = Len(served) % createdLen
    /\ proxyIndex >= 0
    /\ Len(proxies) > 0 => proxyIndex < Len(proxies)
    /\ Len(proxies) = 0 => proxyIndex = 0

C38_Witness ==
    /\ proxyFn = "rotate"
    /\ createdLen = 3
    /\ proxies = <<"http://p1:8080", "http://p2:8080", "http://p4:8080">>
    /\ served = <<"http://p1:8080", "http://p2:8080", "http://p4:8080", "http://p1:8080">>
    /\ proxyIndex = 1
    /\ proxyRet = <<"url", "http://p1:8080">>
====
